---------------------------- MODULE Spec2Model ----------------------------
(***************************************************************************)
(* Model of the Smarter Stocking Analytics pages:                          *)
(*   pages/dashboard.py        load, column normalisation, outer merge     *)
(*   pages/performance.py      summary_metrics                             *)
(*   pages/business_impact.py  determine_condition, recommendation loop    *)
(*   sales_volume_forecasting.py  session state, sidebar, page router       *)
(*                                                                         *)
(* A data frame is its set of column names and its set of rows, a row a    *)
(* function from column name to cell.  Column names are sequences of       *)
(* characters so that str.lower and str.strip are computed, not assumed.   *)
(* A nullable cell is <<v>> when present and <<>> (NaN) when missing.      *)
(* Dates are day numbers.  Each page has its own specification; the        *)
(* variables of the pages that are not rendered stay idle.                 *)
(***************************************************************************)
EXTENDS Integers, Sequences, FiniteSets, TLC

VARIABLES
    \* pages/dashboard.py
    weekly_file,      \* rows of data/weekly_sales_by_warehouse.csv
    forecast_file,    \* rows of data/forecast_all_warehouse.csv as the dashboard reads it
    weekly_df,        \* in-memory frame
    forecast_df,      \* in-memory frame
    merged,           \* sequence of rows after merge(...).sort_values("date")
    selected_wh,      \* value of the "Select Warehouse" selectbox
    df_plot,          \* rows of merged for the selected warehouse
    total_sales,      \* the "Total Weekly Sales" KPI
    dpc               \* position in dashboard_page

VARIABLES
    \* pages/performance.py
    perf_file,        \* data/forecast_all_warehouse.csv as the performance page reads it
    df,               \* frame returned by load_forecast_csv, columns normalised
    df_filtered,      \* df after the sidebar filters
    perf_df,          \* DataFrame(metrics) returned by summary_metrics
    ppc,              \* position in performance_page
    perf_readable,    \* pd.read_csv of the file succeeds (the file is there and parses)
    load_cache,       \* the st.cache_data entry of load_forecast_csv(DATA_PATH)
    widgets,          \* values of the four sidebar widgets of the session
    perf_msgs         \* st.error / st.info messages of the render

VARIABLES
    \* pages/business_impact.py, the recommendation loop
    summary_df,       \* rows of the business summary table
    bidx,             \* index of the row the loop is at
    priority,         \* local variable of business_impact_page
    next_step,        \* local variable of business_impact_page
    recommendations,  \* list of the rows appended so far
    bpc               \* position in business_impact_page

VARIABLES
    \* a call of determine_condition
    acc,              \* argument, in hundredths of a percent
    fcr,              \* argument, in hundredths of a percent
    cond,             \* returned value
    cpc               \* position of the call

VARIABLES
    \* sales_volume_forecasting.py
    session_state,    \* st.session_state, a function from key to value
    clicked,          \* the button whose click started this run of the script
    option,           \* position of the sidebar loop in nav_options
    dispatched,       \* page functions the router has called in this run
    last_clicked,     \* history: the option of the most recent click
    page_before,      \* history: st.session_state when this run started
    npc               \* position in the script

dashboardVars ==
    <<weekly_file, forecast_file, weekly_df, forecast_df, merged,
      selected_wh, df_plot, total_sales, dpc>>
performanceVars ==
    <<perf_file, df, df_filtered, perf_df, ppc, perf_readable, load_cache,
      widgets, perf_msgs>>

businessVars == <<summary_df, bidx, priority, next_step, recommendations, bpc>>
conditionVars == <<acc, fcr, cond, cpc>>
navigationVars ==
    <<session_state, clicked, option, dispatched, last_clicked, page_before, npc>>

vars == <<dashboardVars, performanceVars, businessVars, conditionVars, navigationVars>>

-----------------------------------------------------------------------------
(* Bounds *)

MaxObs == 2       \* rows in the weekly sales file
MaxFc == 2        \* rows in the forecast file read by the dashboard
MaxPerf == 2      \* rows in the forecast file read by the performance page
MaxTable == 3     \* rows in the business summary table

-----------------------------------------------------------------------------
(* Cells and strings *)

NaN == <<>>
Val(v) == <<v>>

UpperChars == <<"A","B","C","D","E","F","G","H","I","J","K","L","M",
                "N","O","P","Q","R","S","T","U","V","W","X","Y","Z">>
LowerChars == <<"a","b","c","d","e","f","g","h","i","j","k","l","m",
                "n","o","p","q","r","s","t","u","v","w","x","y","z">>
Whitespace == {" ", "\t", "\n"}

LowerChar(c) ==
    IF \E i \in DOMAIN UpperChars : UpperChars[i] = c
    THEN LowerChars[CHOOSE i \in DOMAIN UpperChars : UpperChars[i] = c]
    ELSE c

\* str.lower()
lower(s) == [i \in 1..Len(s) |-> LowerChar(s[i])]

RECURSIVE lstrip(_)
lstrip(s) == IF s # <<>> /\ Head(s) \in Whitespace THEN lstrip(Tail(s)) ELSE s

RECURSIVE rstrip(_)
rstrip(s) ==
    IF s # <<>> /\ s[Len(s)] \in Whitespace
    THEN rstrip(SubSeq(s, 1, Len(s) - 1))
    ELSE s

\* str.strip()
strip(s) == rstrip(lstrip(s))

\* variant: the name is lower-cased but not trimmed
NormalizeNameNoStrip(c) == lower(c)

\* c.lower().strip(), the comprehension of dashboard.py lines 36-37
NormalizeName(c) == strip(lower(c))

-----------------------------------------------------------------------------
(* Column names *)

c_warehouse == <<"w","a","r","e","h","o","u","s","e">>
c_nearest_warehouse == <<"n","e","a","r","e","s","t","_">> \o c_warehouse
c_date == <<"d","a","t","e">>
c_total_quantity == <<"t","o","t","a","l","_","q","u","a","n","t","i","t","y">>
c_model == <<"m","o","d","e","l">>
c_forecast == <<"f","o","r","e","c","a","s","t">>
c_location == <<"l","o","c","a","t","i","o","n">>
c_actual == <<"a","c","t","u","a","l">>

\* headers as an upstream producer may write them
h_Warehouse_sp == <<" ","W">> \o Tail(c_warehouse) \o <<" ">>
h_Nearest_Warehouse_sp ==
    <<"N","e","a","r","e","s","t","_","W">> \o Tail(c_warehouse) \o <<" ">>
h_Date == <<"D">> \o Tail(c_date)

-----------------------------------------------------------------------------
(* Frames and the input files of the dashboard *)

Locations == {"Bakers", "Nickolson"}
AltLocation == "Thompson"
Periods == {1, 2}
Models == {"m1", "m2"}
Quantities == {100, 120}
ForecastValues == {90}

SubsetsUpTo(S, n) == {T \in SUBSET S : Cardinality(T) <= n}

Frame(cols, rows) == [columns |-> cols, rows |-> rows]
EmptyFrame == Frame({}, {})

WeeklyHeader == {c_nearest_warehouse, h_Date, c_total_quantity}

WeeklyRow(wh, d, q) ==
    (c_nearest_warehouse :> wh) @@ (h_Date :> d) @@ (c_total_quantity :> Val(q))

\* the weekly file: at most one row per (warehouse, date)
WeeklyFiles ==
    UNION {{Frame(WeeklyHeader, {WeeklyRow(k[1], k[2], f[k]) : k \in K})
            : f \in [K -> Quantities]}
           : K \in SubsetsUpTo(Locations \X Periods, MaxObs)}

\* which header, if any, carries the location, and which other header is there
ForecastHeaderOptions ==
    {[loc |-> {c_nearest_warehouse},    alt |-> {}],
     [loc |-> {c_warehouse},            alt |-> {}],
     [loc |-> {h_Warehouse_sp},         alt |-> {}],
     [loc |-> {h_Nearest_Warehouse_sp}, alt |-> {c_warehouse}],
     [loc |-> {},                       alt |-> {c_location}],
     [loc |-> {},                       alt |-> {}]}

ForecastHeader(hd) == hd.loc \cup hd.alt \cup {c_date, c_model, c_forecast}

ForecastRow(hd, wh, d, m, v) ==
    [h \in ForecastHeader(hd) |->
        CASE h = c_date -> d
          [] h = c_model -> Val(m)
          [] h = c_forecast -> Val(v)
          [] h \in hd.loc -> wh
          [] OTHER -> Val(AltLocation)]

\* the forecast file: at most one row per (warehouse, date, model)
ForecastFiles ==
    UNION {UNION {{Frame(ForecastHeader(hd),
                         {ForecastRow(hd, k[1], k[2], k[3], f[k]) : k \in K})
                   : f \in [K -> ForecastValues]}
                  : K \in SubsetsUpTo(Locations \X Periods \X Models, MaxFc)}
           : hd \in ForecastHeaderOptions}

-----------------------------------------------------------------------------
(* Frame operations *)

\* frame.columns = [c.lower().strip() for c in frame.columns]
NormalizeColumns(frame) ==
    Frame({NormalizeName(h) : h \in frame.columns},
          {[c \in {NormalizeName(h) : h \in frame.columns} |->
               r[CHOOSE h \in frame.columns : NormalizeName(h) = c]] : r \in frame.rows})

\* frame.rename(columns={old: new}, inplace=True)
Rename(frame, old, new) ==
    Frame((frame.columns \ {old}) \cup {new},
          {[c \in (frame.columns \ {old}) \cup {new} |->
               IF c = new THEN r[old] ELSE r[c]] : r \in frame.rows})

\* df[col] = value
Assign(frame, col, value) ==
    Frame(frame.columns \cup {col},
          {[c \in frame.columns \cup {col} |-> IF c = col THEN value ELSE r[c]]
           : r \in frame.rows})

\* dashboard.py lines 39-43
AliasLocation(frame) ==
    LET renamed ==
            IF c_warehouse \in frame.columns /\ c_nearest_warehouse \notin frame.columns
            THEN Rename(frame, c_warehouse, c_nearest_warehouse)
            ELSE frame
    IN  IF c_nearest_warehouse \notin renamed.columns
        THEN Assign(renamed, c_nearest_warehouse, "unknown")
        ELSE renamed

MergeKey(r) == <<r[c_nearest_warehouse], r[c_date]>>
KeyColumns == {c_nearest_warehouse, c_date}

\* variant: how="inner", only the keys present on both sides
InnerMerge(left, right) ==
    LET cols == left.columns \cup right.columns
    IN  Frame(cols,
              {[c \in cols |-> IF c \in DOMAIN p[1] THEN p[1][c] ELSE p[2][c]]
               : p \in {q \in left.rows \X right.rows
                          : MergeKey(q[1]) = MergeKey(q[2])}})

\* variant: the missing side is filled with 0 (a fillna(0) after the merge)
OuterMergeFillZero(left, right) ==
    LET cols == left.columns \cup right.columns
        fill(row) == [c \in cols |-> IF c \in DOMAIN row THEN row[c] ELSE Val(0)]
        both == {[c \in cols |-> IF c \in DOMAIN p[1] THEN p[1][c] ELSE p[2][c]]
                 : p \in {q \in left.rows \X right.rows
                            : MergeKey(q[1]) = MergeKey(q[2])}}
        leftOnly == {fill(l) : l \in {x \in left.rows
                                : \A r \in right.rows : MergeKey(r) # MergeKey(x)}}
        rightOnly == {fill(r) : r \in {x \in right.rows
                                 : \A l \in left.rows : MergeKey(l) # MergeKey(x)}}
    IN  Frame(cols, both \cup leftOnly \cup rightOnly)

\* pd.merge(left, right, on=["nearest_warehouse", "date"], how="outer"):
\* one row per matching (left, right) pair, plus the unmatched rows of each
\* side with the other side's columns missing.  (No non-key column of the two
\* files has the same name, so the suffixes are never applied.)
OuterMerge(left, right) ==
    LET cols == left.columns \cup right.columns
        both == {[c \in cols |-> IF c \in DOMAIN p[1] THEN p[1][c] ELSE p[2][c]]
                 : p \in {q \in left.rows \X right.rows
                            : MergeKey(q[1]) = MergeKey(q[2])}}
        leftOnly == {[c \in cols |-> IF c \in DOMAIN l THEN l[c] ELSE NaN]
                     : l \in {x \in left.rows
                                : \A r \in right.rows : MergeKey(r) # MergeKey(x)}}
        rightOnly == {[c \in cols |-> IF c \in DOMAIN r THEN r[c] ELSE NaN]
                      : r \in {x \in right.rows
                                 : \A l \in left.rows : MergeKey(l) # MergeKey(x)}}
    IN  Frame(cols, both \cup leftOnly \cup rightOnly)

\* variant: the merge result is not sorted at all
RECURSIVE Unsorted(_)
Unsorted(rows) ==
    IF rows = {} THEN {<<>>}
    ELSE UNION {{<<r>> \o t : t \in Unsorted(rows \ {r})} : r \in rows}

\* .sort_values("date"): the default kind is quicksort, which is not stable,
\* so every arrangement that is ascending by date is a possible outcome
RECURSIVE SortValuesDate(_)
SortValuesDate(rows) ==
    IF rows = {} THEN {<<>>}
    ELSE UNION {{<<r>> \o t : t \in SortValuesDate(rows \ {r})}
                : r \in {x \in rows : \A y \in rows : x[c_date] <= y[c_date]}}

-----
(* pages/dashboard.py *)

\* lines 30-46: read both files, normalise the column names, alias the
\* location column
DashboardNormalize ==
    /\ dpc = "start"
    /\ weekly_df' = NormalizeColumns(weekly_file)
    /\ forecast_df' = AliasLocation(NormalizeColumns(forecast_file))
    /\ dpc' = "normalized"
    /\ UNCHANGED <<weekly_file, forecast_file, merged, selected_wh, df_plot, total_sales>>
    /\ UNCHANGED <<performanceVars, businessVars, conditionVars, navigationVars>>

\* lines 51-57: outer merge on (nearest_warehouse, date), sorted by date
DashboardMerge ==
    /\ dpc = "normalized"
    /\ merged' \in SortValuesDate(OuterMerge(weekly_df, forecast_df).rows)
    /\ dpc' = "merged"
    /\ UNCHANGED <<weekly_file, forecast_file, weekly_df, forecast_df>>
    /\ UNCHANGED <<selected_wh, df_plot, total_sales>>
    /\ UNCHANGED <<performanceVars, businessVars, conditionVars, navigationVars>>

\* Series.sum() over the cells at the positions in index (also performance.py)
RECURSIVE SeriesSum(_, _)
SeriesSum(series, index) ==
    IF index = {} THEN 0
    ELSE LET r == CHOOSE x \in index : TRUE
         IN  series[r][1] + SeriesSum(series, index \ {r})

\* rows[col].sum(): NaN cells are skipped
ColumnSum(rows, col) ==
    SeriesSum([i \in DOMAIN rows |-> rows[i][col]],
              {i \in DOMAIN rows : rows[i][col] # NaN})

\* rows[mask]: the rows that satisfy the mask, in their order
RECURSIVE SelectRows(_, _)
SelectRows(rows, wh) ==
    IF rows = <<>> THEN <<>>
    ELSE IF Head(rows)[c_nearest_warehouse] = wh
         THEN <<Head(rows)>> \o SelectRows(Tail(rows), wh)
         ELSE SelectRows(Tail(rows), wh)

All == "All"

\* lines 64-65: ["All"] + sorted(merged["nearest_warehouse"].dropna().unique());
\* the key column of a merged row holds a name on every row, none is dropped
Warehouses(rows) ==
    {All} \cup {rows[i][c_nearest_warehouse] : i \in DOMAIN rows}

\* lines 66-80: the warehouse selected in the sidebar, the rows plotted and
\* the total of total_quantity over them
DashboardKPI ==
    /\ dpc = "merged"
    /\ selected_wh' \in Warehouses(merged)
    /\ df_plot' = IF selected_wh' = All THEN merged ELSE SelectRows(merged, selected_wh')
    /\ total_sales' =
          IF selected_wh' = All THEN ColumnSum(merged, c_total_quantity)
          ELSE ColumnSum(df_plot', c_total_quantity)
    /\ dpc' = "kpi"
    /\ UNCHANGED <<weekly_file, forecast_file, weekly_df, forecast_df, merged>>
    /\ UNCHANGED <<performanceVars, businessVars, conditionVars, navigationVars>>

\* the state of a page that is not being rendered
IdleDashboard ==
    /\ weekly_file = EmptyFrame
    /\ forecast_file = EmptyFrame
    /\ weekly_df = EmptyFrame
    /\ forecast_df = EmptyFrame
    /\ merged = <<>>
    /\ selected_wh = "All"
    /\ df_plot = <<>>
    /\ total_sales = 0
    /\ dpc = "idle"

IdlePerformance ==
    /\ perf_file = EmptyFrame
    /\ df = EmptyFrame
    /\ df_filtered = EmptyFrame
    /\ perf_df = {}
    /\ ppc = "idle"
    /\ perf_readable = TRUE
    /\ load_cache = [hit |-> FALSE, value |-> EmptyFrame]
    /\ widgets =
          [touched |-> FALSE, warehouse |-> "All", model |-> "All", start |-> 0, end |-> 0]
    /\ perf_msgs = {}

Unbound == "<unbound>"

IdleBusiness ==
    /\ summary_df = <<>>
    /\ bidx = 1
    /\ priority = Unbound
    /\ next_step = Unbound
    /\ recommendations = <<>>
    /\ bpc = "idle"

IdleCondition ==
    /\ acc = 0
    /\ fcr = 0
    /\ cond = "none"
    /\ cpc = "idle"

\* no button: a label that is none of the options
NoClick == [icon |-> <<>>, text |-> ""]

IdleNavigation ==
    /\ session_state = <<>>
    /\ clicked = NoClick
    /\ option = 1
    /\ dispatched = <<>>
    /\ last_clicked = NoClick
    /\ page_before = <<>>
    /\ npc = "idle"

InitDashboard ==
    /\ weekly_file \in WeeklyFiles
    /\ forecast_file \in ForecastFiles
    /\ weekly_df = EmptyFrame
    /\ forecast_df = EmptyFrame
    /\ merged = <<>>
    /\ selected_wh = "All"
    /\ df_plot = <<>>
    /\ total_sales = 0
    /\ dpc = "start"
    /\ IdlePerformance
    /\ IdleBusiness
    /\ IdleCondition
    /\ IdleNavigation

NextDashboard == DashboardNormalize \/ DashboardMerge \/ DashboardKPI

SpecDashboard == InitDashboard /\ [][NextDashboard]_vars

-----------------------------------------------------------------------------
(* pages/performance.py *)

PerfWarehouses == {"Bakers", "Nickolson"}
PerfModels == {"m1", "m2"}
PerfDates == {1, 2}

\* (actual, forecast) cells of a row of the file; either may be empty
PerfPairs ==
    {<<Val(100), Val(90)>>, <<Val(120), Val(130)>>,
     <<NaN, Val(90)>>, <<Val(100), NaN>>,
     <<Val(100), Val(0)>>, <<Val(100), Val(400)>>, <<Val(100), Val(700)>>}

PerfHeader == {c_warehouse, c_model, c_date, c_actual, c_forecast}

PerfRow(wh, m, d, pair) ==
    (c_warehouse :> wh) @@ (c_model :> m) @@ (c_date :> d)
      @@ (c_actual :> pair[1]) @@ (c_forecast :> pair[2])

\* the forecast file: at most one row per (warehouse, model, date)
PerfFiles ==
    UNION {{Frame(PerfHeader, {PerfRow(k[1], k[2], k[3], f[k]) : k \in K})
            : f \in [K -> PerfPairs]}
           : K \in SubsetsUpTo(PerfWarehouses \X PerfModels \X PerfDates, MaxPerf)}

\* sum of a series, the index being the rows
RECURSIVE GCD(_, _)
GCD(a, b) == IF b = 0 THEN a ELSE GCD(b, a % b)

Magnitude(n) == IF n < 0 THEN -n ELSE n

\* an exact mean is the reduced fraction <<numerator, denominator>>
Fraction(num, den) ==
    LET g == GCD(Magnitude(num), den) IN <<num \div g, den \div g>>

\* variant: the missing entries count as 0 (fillna(0) before the mean)
SeriesMeanFillZero(series) ==
    LET present == {r \in DOMAIN series : series[r] # NaN}
    IN  IF DOMAIN series = {} THEN NaN
        ELSE Fraction(SeriesSum(series, present), Cardinality(DOMAIN series))

\* np.mean(series) dispatches to Series.mean(), which skips NaN and is NaN
\* when nothing is left
SeriesMean(series) ==
    LET present == {r \in DOMAIN series : series[r] # NaN}
    IN  IF present = {} THEN NaN
        ELSE Fraction(SeriesSum(series, present), Cardinality(present))

\* elementwise arithmetic on cells; NaN propagates
Minus(a, b) == IF a = NaN \/ b = NaN THEN NaN ELSE Val(a[1] - b[1])
Abs(a) == IF a = NaN THEN NaN ELSE Val(Magnitude(a[1]))
Square(a) == IF a = NaN THEN NaN ELSE Val(a[1] * a[1])

\* np.sqrt(x) of a mean <<num, den>>: the exact root, written <<"sqrt", num, den>>
Sqrt(x) == IF x = NaN THEN NaN ELSE <<"sqrt", x[1], x[2]>>

\* floor of the square root of a natural number, by bisection
RECURSIVE RootBisect(_, _, _)
RootBisect(n, lo, hi) ==
    IF hi - lo <= 1 THEN lo
    ELSE LET mid == (lo + hi) \div 2
         IN  IF mid <= n \div mid THEN RootBisect(n, mid, hi)
             ELSE RootBisect(n, lo, mid)
FloorRoot(n) == IF n = 0 THEN 0 ELSE RootBisect(n, 1, n + 1)

\* sign of (t/200)^2 - num/den for t >= 0, den > 0, computed on t = 200a + b
\* so that no intermediate value leaves 32 bits
CompareSquare(t, num, den) ==
    LET a == t \div 200
        b == t % 200
        d == num - a * a * den
        lhs == (400 * a * b + b * b) * den
    IN  IF d < 0 THEN 1
        ELSE IF d >= (2 * a + 1) * den THEN -1
        ELSE IF lhs > 40000 * d THEN 1
        ELSE IF lhs < 40000 * d THEN -1
        ELSE 0

\* least h in lo..hi with (h + 0.5)/100 above the root of num/den
RECURSIVE HundredthsBisect(_, _, _, _)
HundredthsBisect(num, den, lo, hi) ==
    IF lo = hi THEN lo
    ELSE LET mid == (lo + hi) \div 2
         IN  IF CompareSquare(2 * mid + 1, num, den) > 0
             THEN HundredthsBisect(num, den, lo, mid)
             ELSE HundredthsBisect(num, den, mid + 1, hi)

\* round(x, 2) of a root: the nearest multiple of 0.01, ties to even, as the
\* number of hundredths
Round2Root(x) ==
    IF x = NaN THEN NaN
    ELSE LET num == x[2]
             den == x[3]
             top == 100 * (FloorRoot(num \div den) + 1)
             h == HundredthsBisect(num, den, 0, top)
         IN  Val(IF h > 0 /\ CompareSquare(2 * h - 1, num, den) = 0 /\ h % 2 = 1
                 THEN h - 1 ELSE h)

\* x < k for a mean x; every comparison with NaN is false
LessThan(x, k) == x # NaN /\ x[1] < k * x[2]

\* round(x, 2) of a mean: the nearest multiple of 0.01, ties to even, as the
\* number of hundredths
Round2(x) ==
    IF x = NaN THEN NaN
    ELSE LET n == 100 * x[1]
             q == n \div x[2]
             rem == n - q * x[2]
         IN  Val(IF 2 * rem > x[2] \/ (2 * rem = x[2] /\ q % 2 = 1)
                 THEN q + 1 ELSE q)

\* variant: the thresholds are compared with <=
InterpretInclusive(mae) ==
    IF mae # NaN /\ mae[1] <= 100 * mae[2] THEN "Excellent accuracy"
    ELSE IF mae # NaN /\ mae[1] <= 300 * mae[2] THEN "Good performance"
    ELSE IF mae # NaN /\ mae[1] <= 600 * mae[2] THEN "Moderate accuracy"
    ELSE "Poor accuracy"

\* performance.py lines 33-41 (each label is followed by an emoji in the code)
Interpret(mae) ==
    IF LessThan(mae, 100) THEN "Excellent accuracy"
    ELSE IF LessThan(mae, 300) THEN "Good performance"
    ELSE IF LessThan(mae, 600) THEN "Moderate accuracy"
    ELSE "Poor accuracy"

\* df.groupby(["warehouse", "model"]): the keys that occur; a group is never
\* empty
GroupKeys(frame) == {<<r[c_warehouse], r[c_model]>> : r \in frame.rows}
Group(frame, key) ==
    {r \in frame.rows : r[c_warehouse] = key[1] /\ r[c_model] = key[2]}

\* performance.py lines 23-51
summary_metrics(frame) ==
    {LET sub == Group(frame, key)
         error == [r \in sub |-> Minus(r[c_actual], r[c_forecast])]
         mae == SeriesMean([r \in sub |-> Abs(error[r])])
         rmse == Sqrt(SeriesMean([r \in sub |-> Square(error[r])]))
         bias == SeriesMean([r \in sub |-> Minus(r[c_forecast], r[c_actual])])
     IN  [Warehouse |-> key[1],
          Model |-> key[2],
          MAE |-> Round2(mae),
          RMSE |-> Round2Root(rmse),
          Bias |-> Round2(bias),
          Interpretation |-> Interpret(mae)]
     : key \in {k \in GroupKeys(frame) : Group(frame, k) # {}}}

\* variant: the end date is excluded
FilterDataExclusiveEnd(frame, sel_warehouse, sel_model, sel_start, sel_end) ==
    Frame(frame.columns,
          {r \in frame.rows :
              /\ r[c_date] >= sel_start /\ r[c_date] < sel_end
              /\ sel_warehouse # "All" => r[c_warehouse] = sel_warehouse
              /\ sel_model # "All" => r[c_model] = sel_model})

\* performance.py lines 86-92
FilterData(frame, sel_warehouse, sel_model, sel_start, sel_end) ==
    Frame(frame.columns,
          {r \in frame.rows :
              /\ r[c_date] >= sel_start /\ r[c_date] <= sel_end
              /\ sel_warehouse # "All" => r[c_warehouse] = sel_warehouse
              /\ sel_model # "All" => r[c_model] = sel_model})

MinDate(frame) ==
    CHOOSE d \in {r[c_date] : r \in frame.rows} :
        \A r \in frame.rows : d <= r[c_date]
MaxDate(frame) ==
    CHOOSE d \in {r[c_date] : r \in frame.rows} :
        \A r \in frame.rows : d >= r[c_date]

NotCached == [hit |-> FALSE, value |-> EmptyFrame]
Cached(frame) == [hit |-> TRUE, value |-> frame]

\* the widgets before the user has touched them: each returns its default
Untouched ==
    [touched |-> FALSE, warehouse |-> "All", model |-> "All", start |-> 0, end |-> 0]

MsgLoadError == "Could not load file"
MsgNoForecast == "No forecast data found"
MsgNoMetrics == "No performance metrics available for current filters."
MsgNoData == "No data available for the selected filters."

\* lines 13-21: the value load_forecast_csv(DATA_PATH) returns.  With
\* st.cache_data a stored entry is returned without running the body; the body
\* returns the parsed file, or pd.DataFrame() when read_csv raises
load_forecast_csv ==
    IF load_cache.hit THEN load_cache.value
    ELSE IF perf_readable THEN perf_file
    ELSE EmptyFrame

\* the st.error of line 20, replayed with a cached result
LoadMessages == IF load_forecast_csv.columns = {} THEN {MsgLoadError} ELSE {}

\* lines 77-83: the values the four widgets return
Selection(frame) ==
    IF widgets.touched THEN widgets
    ELSE [touched |-> FALSE, warehouse |-> "All", model |-> "All",
          start |-> MinDate(frame), end |-> MaxDate(frame)]

\* lines 68-71: the loaded frame is empty, the page reports it and stops
PerformanceNoData ==
    /\ ppc = "start"
    /\ load_forecast_csv.rows = {}
    /\ df' = load_forecast_csv
    /\ load_cache' = Cached(load_forecast_csv)
    /\ perf_msgs' = LoadMessages \cup {MsgNoForecast}
    /\ ppc' = "stopped"
    /\ UNCHANGED <<perf_file, df_filtered, perf_df, perf_readable, widgets>>
    /\ UNCHANGED <<dashboardVars, businessVars, conditionVars, navigationVars>>

\* lines 68-92: load, normalise the column names, apply the filters, which
\* on the first render are "All", "All" and the whole range of dates
PerformanceLoad ==
    /\ ppc = "start"
    /\ load_forecast_csv.rows # {}
    /\ df' = NormalizeColumns(load_forecast_csv)
    /\ load_cache' = Cached(load_forecast_csv)
    /\ LET sel == Selection(df')
       IN  df_filtered' = FilterData(df', sel.warehouse, sel.model, sel.start, sel.end)
    /\ perf_msgs' = {}
    /\ ppc' = "filtered"
    /\ UNCHANGED <<perf_file, perf_df, perf_readable, widgets>>
    /\ UNCHANGED <<dashboardVars, businessVars, conditionVars, navigationVars>>

\* lines 97-118: the metrics table and the two "nothing to show" messages
PerformanceSummary ==
    /\ ppc = "filtered"
    /\ perf_df' = summary_metrics(df_filtered)
    /\ perf_msgs' = (IF perf_df' = {} THEN {MsgNoMetrics} ELSE {})
                      \cup (IF df_filtered.rows = {} THEN {MsgNoData} ELSE {})
    /\ ppc' = "done"
    /\ UNCHANGED <<perf_file, df, df_filtered, perf_readable, load_cache, widgets>>
    /\ UNCHANGED <<dashboardVars, businessVars, conditionVars, navigationVars>>

\* the script is run again for the same session; the cache entry outlives
\* the run
PerformanceRerun ==
    /\ ppc \in {"stopped", "done"}
    /\ df' = EmptyFrame
    /\ df_filtered' = EmptyFrame
    /\ perf_df' = {}
    /\ perf_msgs' = {}
    /\ ppc' = "start"
    /\ UNCHANGED <<perf_file, perf_readable, load_cache, widgets>>
    /\ UNCHANGED <<dashboardVars, businessVars, conditionVars, navigationVars>>

\* between two runs the file is put in place
FileWritten ==
    /\ ppc = "start"
    /\ ~perf_readable
    /\ perf_readable' = TRUE
    /\ UNCHANGED <<perf_file, df, df_filtered, perf_df, ppc, load_cache, widgets,
                   perf_msgs>>
    /\ UNCHANGED <<dashboardVars, businessVars, conditionVars, navigationVars>>

\* between two runs the file is taken away
FileRemoved ==
    /\ ppc = "start"
    /\ perf_readable
    /\ perf_readable' = FALSE
    /\ UNCHANGED <<perf_file, df, df_filtered, perf_df, ppc, load_cache, widgets,
                   perf_msgs>>
    /\ UNCHANGED <<dashboardVars, businessVars, conditionVars, navigationVars>>

InitPerformance ==
    /\ perf_file \in PerfFiles
    /\ df = EmptyFrame
    /\ df_filtered = EmptyFrame
    /\ perf_df = {}
    /\ ppc = "start"
    /\ perf_readable = TRUE
    /\ load_cache = NotCached
    /\ widgets = Untouched
    /\ perf_msgs = {}
    /\ IdleDashboard
    /\ IdleBusiness
    /\ IdleCondition
    /\ IdleNavigation

NextPerformance == PerformanceNoData \/ PerformanceLoad \/ PerformanceSummary

SpecPerformance == InitPerformance /\ [][NextPerformance]_vars

\* files in which every row has both actual and forecast
PairedFiles ==
    {f \in PerfFiles :
        \A r \in f.rows : r[c_actual] = Val(100) /\ r[c_forecast] = Val(90)}

\* dates a st.date_input can be set to; they need not occur in the file
SelectableDates == {1, 2, 3}

\* what the user can set the widgets to when the frame is loaded: the
\* selectboxes offer "All" and the values of the file (lines 77-78)
Selections(frame) ==
    [touched : {TRUE},
     warehouse : {"All"} \cup {r[c_warehouse] : r \in frame.rows},
     model : {"All"} \cup {r[c_model] : r \in frame.rows},
     start : SelectableDates,
     end : SelectableDates]

\* one render of the page with the widgets set by the user
InitFilter ==
    /\ perf_file \in PairedFiles
    /\ df = EmptyFrame
    /\ df_filtered = EmptyFrame
    /\ perf_df = {}
    /\ ppc = "start"
    /\ perf_readable = TRUE
    /\ load_cache = NotCached
    /\ widgets \in Selections(perf_file)
    /\ perf_msgs = {}
    /\ IdleDashboard
    /\ IdleBusiness
    /\ IdleCondition
    /\ IdleNavigation

SpecFilter == InitFilter /\ [][NextPerformance]_vars

\* successive renders of the page while the file comes and goes
InitReload ==
    /\ perf_file \in PairedFiles
    /\ df = EmptyFrame
    /\ df_filtered = EmptyFrame
    /\ perf_df = {}
    /\ ppc = "start"
    /\ perf_readable \in BOOLEAN
    /\ load_cache = NotCached
    /\ widgets = Untouched
    /\ perf_msgs = {}
    /\ IdleDashboard
    /\ IdleBusiness
    /\ IdleCondition
    /\ IdleNavigation

NextReload ==
    \/ PerformanceNoData
    \/ PerformanceLoad
    \/ PerformanceSummary
    \/ PerformanceRerun
    \/ FileWritten
    \/ FileRemoved

SpecReload == InitReload /\ [][NextReload]_vars

-----------------------------------------------------------------------------
(* pages/business_impact.py *)

\* percentages are held in hundredths: 82.0 is 8200, 2.85 is 285

\* variant: the High rule excludes an accuracy of exactly 82.0
determine_condition_strict(a, f) ==
    IF a > 8200 /\ f < 300 THEN "High Demand"
    ELSE IF (7500 <= a /\ a < 8200) \/ (300 <= f /\ f <= 400) THEN "Moderate Demand"
    ELSE "Low Demand"

\* variant: the High rule admits an FCR of exactly 3.0, which the Moderate
\* rule admits too
determine_condition_overlapping(a, f) ==
    IF a >= 8200 /\ f <= 300 THEN "High Demand"
    ELSE IF (7500 <= a /\ a < 8200) \/ (300 <= f /\ f <= 400) THEN "Moderate Demand"
    ELSE "Low Demand"

\* business_impact.py lines 85-91
determine_condition(a, f) ==
    IF a >= 8200 /\ f < 300 THEN "High Demand"
    ELSE IF (7500 <= a /\ a < 8200) \/ (300 <= f /\ f <= 400) THEN "Moderate Demand"
    ELSE "Low Demand"

AccuracyValues == {7000, 7420, 7499, 7500, 8000, 8090, 8199, 8200, 8370}
FcrValues == {285, 290, 299, 300, 335, 350, 400, 401, 451, 500}

\* a call of determine_condition on one pair of arguments
DetermineCondition ==
    /\ cpc = "called"
    /\ cond' = determine_condition(acc, fcr)
    /\ cpc' = "returned"
    /\ UNCHANGED <<acc, fcr>>
    /\ UNCHANGED <<dashboardVars, performanceVars, businessVars, navigationVars>>

InitCondition ==
    /\ acc \in AccuracyValues
    /\ fcr \in FcrValues
    /\ cond = "none"
    /\ cpc = "called"
    /\ IdleDashboard
    /\ IdlePerformance
    /\ IdleBusiness
    /\ IdleNavigation

NextCondition == DetermineCondition

SpecCondition == InitCondition /\ [][NextCondition]_vars

KnownWarehouses == {"Nickolson", "Thompson", "Bakers"}
BusinessWarehouses == KnownWarehouses \cup {"Depot"}

\* (accuracy, FCR) of the three rows of summary_data, lines 26-27
BusinessMetrics == {<<8370, 285>>, <<8090, 335>>, <<7420, 451>>}

SummaryRow(wh, pair) == [Warehouse |-> wh, Accuracy |-> pair[1], FCR |-> pair[2]]

\* summary_data (lines 24-31) is the table <<Nickolson, Thompson, Bakers>>;
\* the loop is run on every table of up to MaxTable rows, that one included
SummaryTables ==
    UNION {[1..n -> {SummaryRow(wh, pair) :
                       wh \in BusinessWarehouses, pair \in BusinessMetrics}]
           : n \in 0..MaxTable}

\* variant: every warehouse gets its bespoke pair whatever the condition
ActionsIgnoringCondition(wh, c) ==
    CASE wh = "Nickolson" ->
           <<"Smoothly scale staffing and just-in-time replenishment",
             "Lock favorable shipping rates; steady reorder policy">>
      [] wh = "Thompson" ->
           <<"Use flexible workforce; monitor promo impact closely",
             "Coordinate with marketing on promo timing">>
      [] wh = "Bakers" ->
           <<"Tighten procurement; implement micro-promos",
             "Audit SKU-level performance & reduce slow movers">>

\* lines 98-118 for a known warehouse: the (priority, next_step) assigned
Actions(wh, c) ==
    CASE wh = "Nickolson" ->
           IF c = "High Demand"
           THEN <<"Smoothly scale staffing and just-in-time replenishment",
                  "Lock favorable shipping rates; steady reorder policy">>
           ELSE <<"Maintain steady workforce and monitor restock rate",
                  "Review inventory buffer policy">>
      [] wh = "Thompson" ->
           IF c = "Moderate Demand"
           THEN <<"Use flexible workforce; monitor promo impact closely",
                  "Coordinate with marketing on promo timing">>
           ELSE <<"Deploy temporary staff and adjust replenishment window",
                  "Strengthen logistics monitoring">>
      [] wh = "Bakers" ->
           IF c = "Low Demand"
           THEN <<"Tighten procurement; implement micro-promos",
                  "Audit SKU-level performance & reduce slow movers">>
           ELSE <<"Stabilize order flow and reduce lead-time variance",
                  "Reassess supplier contracts">>

Recommendation(wh, c, p, n) ==
    [Warehouse |-> wh, ForecastCondition |-> c, PriorityAction |-> p, NextStep |-> n]

\* lines 94-127, one iteration on a row whose warehouse has a branch
RecommendKnown ==
    /\ bpc = "loop"
    /\ bidx <= Len(summary_df)
    /\ LET row == summary_df[bidx]
           c == determine_condition(row.Accuracy, row.FCR)
       IN  /\ row.Warehouse \in KnownWarehouses
           /\ priority' = Actions(row.Warehouse, c)[1]
           /\ next_step' = Actions(row.Warehouse, c)[2]
           /\ recommendations' =
                 Append(recommendations,
                        Recommendation(row.Warehouse, c, priority', next_step'))
    /\ bidx' = bidx + 1
    /\ UNCHANGED <<summary_df, bpc>>
    /\ UNCHANGED <<dashboardVars, performanceVars, conditionVars, navigationVars>>

\* lines 94-127, one iteration on a row no branch matches, after an earlier
\* iteration has assigned priority and next_step: they are appended as they are
RecommendStale ==
    /\ bpc = "loop"
    /\ bidx <= Len(summary_df)
    /\ LET row == summary_df[bidx]
           c == determine_condition(row.Accuracy, row.FCR)
       IN  /\ row.Warehouse \notin KnownWarehouses
           /\ priority # Unbound
           /\ recommendations' =
                 Append(recommendations,
                        Recommendation(row.Warehouse, c, priority, next_step))
    /\ bidx' = bidx + 1
    /\ UNCHANGED <<summary_df, priority, next_step, bpc>>
    /\ UNCHANGED <<dashboardVars, performanceVars, conditionVars, navigationVars>>

\* lines 94-127, one iteration on a row no branch matches, before any
\* assignment: reading priority at line 124 raises UnboundLocalError
RecommendUnbound ==
    /\ bpc = "loop"
    /\ bidx <= Len(summary_df)
    /\ summary_df[bidx].Warehouse \notin KnownWarehouses
    /\ priority = Unbound
    /\ bpc' = "error"
    /\ UNCHANGED <<summary_df, bidx, priority, next_step, recommendations>>
    /\ UNCHANGED <<dashboardVars, performanceVars, conditionVars, navigationVars>>

\* line 129: the loop is over, reco_df is built from recommendations
RecommendDone ==
    /\ bpc = "loop"
    /\ bidx > Len(summary_df)
    /\ bpc' = "done"
    /\ UNCHANGED <<summary_df, bidx, priority, next_step, recommendations>>
    /\ UNCHANGED <<dashboardVars, performanceVars, conditionVars, navigationVars>>

InitBusiness ==
    /\ summary_df \in SummaryTables
    /\ bidx = 1
    /\ priority = Unbound
    /\ next_step = Unbound
    /\ recommendations = <<>>
    /\ bpc = "loop"
    /\ IdleDashboard
    /\ IdlePerformance
    /\ IdleCondition
    /\ IdleNavigation

NextBusiness ==
    RecommendKnown \/ RecommendStale \/ RecommendUnbound \/ RecommendDone

SpecBusiness == InitBusiness /\ [][NextBusiness]_vars

-----------------------------------------------------------------------------
(* sales_volume_forecasting.py *)

\* a label of the sidebar: the code points of its icon and the text after it
Label(icon, text) == [icon |-> icon, text |-> text]

\* line 28: "🏠 Home"
HomeLabel == Label(<<127968>>, " Home")

\* lines 33-39
nav_options ==
    <<Label(<<127968>>, " Home"),
      Label(<<128202>>, " Dashboard"),
      Label(<<128200>>, " Performance"),
      Label(<<128184>>, " Business Impact"),
      Label(<<9742, 65039>>, " Contact")>>

\* variant: the router's literal for Contact lacks the variation selector
\* U+FE0F that the label in nav_options carries
page_router_plain_icon ==
    <<[label |-> Label(<<127968>>, " Home"),            page |-> "home_page"],
      [label |-> Label(<<128202>>, " Dashboard"),       page |-> "dashboard_page"],
      [label |-> Label(<<128200>>, " Performance"),     page |-> "performance_page"],
      [label |-> Label(<<128184>>, " Business Impact"), page |-> "business_impact_page"],
      [label |-> Label(<<9742>>, " Contact"),           page |-> "contact_page"]>>

\* lines 61-79: the literal each branch compares with and the function it calls
page_router ==
    <<[label |-> Label(<<127968>>, " Home"),            page |-> "home_page"],
      [label |-> Label(<<128202>>, " Dashboard"),       page |-> "dashboard_page"],
      [label |-> Label(<<128200>>, " Performance"),     page |-> "performance_page"],
      [label |-> Label(<<128184>>, " Business Impact"), page |-> "business_impact_page"],
      [label |-> Label(<<9742, 65039>>, " Contact"),    page |-> "contact_page"]>>

\* the if / elif chain: the first branch whose literal equals the page, or none
RECURSIVE Route(_, _)
Route(branches, page) ==
    IF branches = <<>> THEN <<>>
    ELSE IF page = Head(branches).label THEN <<Head(branches).page>>
         ELSE Route(Tail(branches), page)

current_page == "current_page"

\* lines 27-28
SessionInit ==
    /\ npc = "start"
    /\ session_state' =
          IF current_page \notin DOMAIN session_state
          THEN (current_page :> HomeLabel)
          ELSE session_state
    /\ option' = 1
    /\ npc' = "sidebar"
    /\ UNCHANGED <<clicked, dispatched, last_clicked, page_before>>
    /\ UNCHANGED <<dashboardVars, performanceVars, businessVars, conditionVars>>

\* lines 48-51, one turn of the loop: st.button is true for the button whose
\* click started the run; the option is stored and st.rerun() halts the run
\* and starts the script again, where no button reads as clicked
SidebarButton ==
    /\ npc = "sidebar"
    /\ IF clicked = nav_options[option]
       THEN /\ session_state' = (current_page :> nav_options[option])
            /\ clicked' = NoClick
            /\ option' = 1
            /\ dispatched' = <<>>
            /\ page_before' = session_state'
            /\ npc' = "start"
       ELSE /\ option' = IF option < Len(nav_options) THEN option + 1 ELSE option
            /\ npc' = IF option < Len(nav_options) THEN "sidebar" ELSE "router"
            /\ UNCHANGED <<session_state, clicked, dispatched, page_before>>
    /\ UNCHANGED last_clicked
    /\ UNCHANGED <<dashboardVars, performanceVars, businessVars, conditionVars>>

\* lines 61-79
PageRouter ==
    /\ npc = "router"
    /\ dispatched' = dispatched \o Route(page_router, session_state[current_page])
    /\ npc' = "done"
    /\ UNCHANGED <<session_state, clicked, option, last_clicked, page_before>>
    /\ UNCHANGED <<dashboardVars, performanceVars, businessVars, conditionVars>>

\* the user clicks a button of the rendered sidebar: the script runs again
Click(o) ==
    /\ npc = "done"
    /\ clicked' = o
    /\ last_clicked' = o
    /\ dispatched' = <<>>
    /\ page_before' = session_state
    /\ npc' = "start"
    /\ UNCHANGED <<session_state, option>>
    /\ UNCHANGED <<dashboardVars, performanceVars, businessVars, conditionVars>>

\* the script runs again without a click on the sidebar (a widget of the page
\* changed, the browser reconnected)
Rerun ==
    /\ npc = "done"
    /\ clicked' = NoClick
    /\ dispatched' = <<>>
    /\ page_before' = session_state
    /\ npc' = "start"
    /\ UNCHANGED <<session_state, option, last_clicked>>
    /\ UNCHANGED <<dashboardVars, performanceVars, businessVars, conditionVars>>

\* a new session: nothing stored, nothing clicked
InitNavigation ==
    /\ session_state = <<>>
    /\ clicked = NoClick
    /\ option = 1
    /\ dispatched = <<>>
    /\ last_clicked = NoClick
    /\ page_before = <<>>
    /\ npc = "start"
    /\ IdleDashboard
    /\ IdlePerformance
    /\ IdleBusiness
    /\ IdleCondition

NextNavigation ==
    \/ SessionInit
    \/ SidebarButton
    \/ PageRouter
    \/ \E i \in DOMAIN nav_options : Click(nav_options[i])
    \/ Rerun

SpecNavigation == InitNavigation /\ [][NextNavigation]_vars

-----------------------------------------------------------------------------
(* Properties of the reconciliation (pages/dashboard.py) *)

KeyOf(r) == <<r[c_nearest_warehouse], r[c_date]>>
MergedKeys == {KeyOf(merged[i]) : i \in DOMAIN merged}
ObservationKeys == {KeyOf(r) : r \in weekly_df.rows}
ForecastKeys == {KeyOf(r) : r \in forecast_df.rows}

\* C1: the (location, period) keys of the merged output are exactly the
\* union of the keys of the normalised observation and forecast frames.
C1_KeySetIsUnion ==
    dpc = "merged" => MergedKeys = ObservationKeys \cup ForecastKeys

C1_Witness ==
    /\ dpc = "merged"
    /\ ObservationKeys \ ForecastKeys # {}
    /\ ForecastKeys \ ObservationKeys # {}
    /\ ObservationKeys \cap ForecastKeys # {}

\* C2: the merged output holds exactly one record per (location, period)
\* key, also when several model variants share a key.
C2_OneRecordPerKey ==
    dpc = "merged" =>
        \A i, j \in DOMAIN merged : KeyOf(merged[i]) = KeyOf(merged[j]) => i = j

\* C3: when the two inputs share no key the output has |observations| +
\* |forecasts| records, each with exactly one of actual and forecast present
\* and the other one missing (NaN, not a number).
C3_DisjointInputs ==
    (dpc = "merged" /\ ObservationKeys \cap ForecastKeys = {}) =>
        /\ Len(merged) = Cardinality(weekly_df.rows) + Cardinality(forecast_df.rows)
        /\ \A i \in DOMAIN merged :
              \/ /\ merged[i][c_total_quantity] # NaN
                 /\ merged[i][c_forecast] = NaN
              \/ /\ merged[i][c_total_quantity] = NaN
                 /\ merged[i][c_forecast] # NaN

C3_Witness ==
    /\ dpc = "merged"
    /\ ObservationKeys \cap ForecastKeys = {}
    /\ Cardinality(weekly_df.rows) = 2
    /\ Cardinality(forecast_df.rows) = 2

\* str comparison of the location names that occur (code point order)
LocationOrder == <<"Bakers", "Nickolson", "Thompson", "unknown">>
LocationRank(l) == CHOOSE i \in DOMAIN LocationOrder : LocationOrder[i] = l

WarehouseSpellings == {c_warehouse, h_Warehouse_sp}
NearestWarehouseSpellings == {c_nearest_warehouse, h_Nearest_Warehouse_sp}
FileHasWarehouse == forecast_file.columns \cap WarehouseSpellings # {}
FileHasNearestWarehouse == forecast_file.columns \cap NearestWarehouseSpellings # {}
FileColumn(spellings) == CHOOSE h \in forecast_file.columns : h \in spellings
ForecastCells(r, loc) == <<loc, r[c_date], r[c_model], r[c_forecast]>>

\* C5: before the join the forecast frame carries the location under
\* 'nearest_warehouse': a 'warehouse' column (any case, surrounding blanks)
\* is renamed when there is no 'nearest_warehouse' one, and without any
\* location column every row gets the location 'unknown' and reaches the
\* merged output.
C5_LocationAliased ==
    dpc \in {"normalized", "merged"} =>
        /\ c_nearest_warehouse \in forecast_df.columns
        /\ \A c \in forecast_df.columns :
              /\ \A i \in DOMAIN c : \A u \in DOMAIN UpperChars : c[i] # UpperChars[u]
              /\ c # <<>> => c[1] \notin Whitespace /\ c[Len(c)] \notin Whitespace
        /\ (FileHasWarehouse /\ ~FileHasNearestWarehouse) =>
              /\ c_warehouse \notin forecast_df.columns
              /\ {ForecastCells(r, r[c_nearest_warehouse]) : r \in forecast_df.rows}
                   = {ForecastCells(r, r[FileColumn(WarehouseSpellings)])
                      : r \in forecast_file.rows}
        /\ FileHasNearestWarehouse =>
              {ForecastCells(r, r[c_nearest_warehouse]) : r \in forecast_df.rows}
                = {ForecastCells(r, r[FileColumn(NearestWarehouseSpellings)])
                   : r \in forecast_file.rows}
        /\ (~FileHasWarehouse /\ ~FileHasNearestWarehouse) =>
              /\ {ForecastCells(r, r[c_nearest_warehouse]) : r \in forecast_df.rows}
                   = {ForecastCells(r, "unknown") : r \in forecast_file.rows}
              /\ Cardinality(forecast_df.rows) = Cardinality(forecast_file.rows)
              /\ dpc = "merged" =>
                    \A r \in forecast_file.rows : \E i \in DOMAIN merged :
                        ForecastCells(merged[i], merged[i][c_nearest_warehouse])
                          = ForecastCells(r, "unknown")

C5_Witness ==
    /\ dpc = "merged"
    /\ h_Warehouse_sp \in forecast_file.columns
    /\ Cardinality(forecast_file.rows) = 2
    /\ \A r \in forecast_file.rows : \E i \in DOMAIN merged :
          merged[i][c_nearest_warehouse] = r[h_Warehouse_sp]

C5_WitnessUnknown ==
    /\ dpc = "merged"
    /\ ~FileHasWarehouse /\ ~FileHasNearestWarehouse
    /\ Cardinality(forecast_file.rows) = 2
    /\ \E i \in DOMAIN merged : merged[i][c_nearest_warehouse] = "unknown"

-----------------------------------------------------------------------------
(* Properties of summary_metrics (pages/performance.py) *)

\* the records of a partition in which both actual and forecast are present
Paired(wh, m) ==
    {r \in df_filtered.rows :
        /\ r[c_warehouse] = wh /\ r[c_model] = m
        /\ r[c_actual] # NaN /\ r[c_forecast] # NaN}

\* sum of term[r] over the records r of S
RECURSIVE TotalOver(_, _)
TotalOver(S, term) ==
    IF S = {} THEN 0
    ELSE LET r == CHOOSE x \in S : TRUE IN term[r] + TotalOver(S \ {r}, term)
Total(S, Term(_)) == TotalOver(S, [r \in S |-> Term(r)])

AbsError(r) ==
    IF r[c_actual][1] >= r[c_forecast][1]
    THEN r[c_actual][1] - r[c_forecast][1]
    ELSE r[c_forecast][1] - r[c_actual][1]
SquaredError(r) ==
    (r[c_actual][1] - r[c_forecast][1]) * (r[c_actual][1] - r[c_forecast][1])
SignedError(r) == r[c_forecast][1] - r[c_actual][1]

\* cell holds h hundredths, and h/100 is a nearest multiple of 0.01 to total/n
NearestHundredths(cell, total, n) ==
    /\ cell # NaN
    /\ 2 * (100 * total - cell[1] * n) <= n
    /\ 2 * (cell[1] * n - 100 * total) <= n

\* cell holds h hundredths, and h/100 is a nearest multiple of 0.01 to the
\* square root of total/n
NearestHundredthsOfRoot(cell, total, n) ==
    /\ cell # NaN
    /\ cell[1] >= 0
    /\ CompareSquare(2 * cell[1] + 1, total, n) >= 0
    /\ cell[1] > 0 => CompareSquare(2 * cell[1] - 1, total, n) <= 0

RowsOf(wh, m) == {row \in perf_df : row.Warehouse = wh /\ row.Model = m}

\* C6: for every partition with paired records, the emitted MAE, RMSE and
\* Bias are the mean absolute error, the root of the mean squared error and
\* the mean of forecast - actual over the paired records only; actual
\* (100, 120) against forecast (90, 130) gives 10, 10, 0 and 'Excellent
\* accuracy'.
C6_MetricsOverPairedRecords ==
    ppc = "done" =>
        \A wh \in PerfWarehouses, m \in PerfModels :
            LET S == Paired(wh, m)
                n == Cardinality(S)
            IN  S # {} =>
                  /\ Cardinality(RowsOf(wh, m)) = 1
                  /\ \A row \in RowsOf(wh, m) :
                        /\ NearestHundredths(row.MAE, Total(S, AbsError), n)
                        /\ NearestHundredthsOfRoot(row.RMSE, Total(S, SquaredError), n)
                        /\ NearestHundredths(row.Bias, Total(S, SignedError), n)
                        /\ {<<r[c_actual], r[c_forecast]>> : r \in S}
                             = {<<Val(100), Val(90)>>, <<Val(120), Val(130)>>} =>
                              /\ row.MAE = Val(1000)
                              /\ row.RMSE = Val(1000)
                              /\ row.Bias = Val(0)
                              /\ row.Interpretation = "Excellent accuracy"

\* a partition with one paired record and one record lacking a side
C6_Witness ==
    /\ ppc = "done"
    /\ \E wh \in PerfWarehouses, m \in PerfModels :
          /\ Cardinality(Paired(wh, m)) = 1
          /\ Cardinality(Group(df_filtered, <<wh, m>>)) = 2
          /\ \E row \in RowsOf(wh, m) : row.MAE # NaN /\ row.MAE # Val(0)

\* the worked example of the claim
C6_WitnessExample ==
    /\ ppc = "done"
    /\ \E wh \in PerfWarehouses, m \in PerfModels :
          /\ {<<r[c_actual], r[c_forecast]>> : r \in Paired(wh, m)}
               = {<<Val(100), Val(90)>>, <<Val(120), Val(130)>>}
          /\ \E row \in RowsOf(wh, m) : row.MAE = Val(1000)

\* C7: no row is emitted for a partition without a paired record.
C7_NoRowWithoutPairedRecord ==
    ppc = "done" => \A row \in perf_df : Paired(row.Warehouse, row.Model) # {}

Bands == {"Excellent accuracy", "Good performance", "Moderate accuracy",
          "Poor accuracy"}

\* C8: every emitted row carries one of the four bands, chosen by the MAE of
\* its partition with inclusive lower bounds 100, 300 and 600.
C8_Banding ==
    ppc = "done" =>
        \A row \in perf_df :
            LET S == Paired(row.Warehouse, row.Model)
                n == Cardinality(S)
                total == Total(S, AbsError)
            IN  /\ row.Interpretation \in Bands
                /\ S # {} =>
                      /\ total < 100 * n => row.Interpretation = "Excellent accuracy"
                      /\ (100 * n <= total /\ total < 300 * n) =>
                            row.Interpretation = "Good performance"
                      /\ (300 * n <= total /\ total < 600 * n) =>
                            row.Interpretation = "Moderate accuracy"
                      /\ total >= 600 * n => row.Interpretation = "Poor accuracy"

\* rows whose MAE is exactly 100 and exactly 600
C8_Witness ==
    /\ ppc = "done"
    /\ \E row \in perf_df :
          row.MAE = Val(10000) /\ row.Interpretation = "Good performance"
    /\ \E row \in perf_df :
          row.MAE = Val(60000) /\ row.Interpretation = "Poor accuracy"

C8_WitnessModerate ==
    /\ ppc = "done"
    /\ \E row \in perf_df :
          row.MAE = Val(30000) /\ row.Interpretation = "Moderate accuracy"

-----------------------------------------------------------------------------
(* Properties of the demand condition and the recommendations
   (pages/business_impact.py) *)

HighRule(a, f) == a >= 8200 /\ f < 300
ModerateRule(a, f) == (a >= 7500 /\ a < 8200) \/ (f >= 300 /\ f <= 400)

\* C9: the condition is High when accuracy >= 82.0 and fcr < 3.0, otherwise
\* Moderate when 75.0 <= accuracy < 82.0 or 3.0 <= fcr <= 4.0, otherwise Low;
\* every pair gets one of the three, and (82.0, 2.9) is High, (80.0, 3.5)
\* Moderate, (70.0, 5.0) Low.
C9_DemandCondition ==
    cpc = "returned" =>
        /\ cond \in {"High Demand", "Moderate Demand", "Low Demand"}
        /\ cond = "High Demand" <=> HighRule(acc, fcr)
        /\ cond = "Moderate Demand" <=> (~HighRule(acc, fcr) /\ ModerateRule(acc, fcr))
        /\ cond = "Low Demand" <=> (~HighRule(acc, fcr) /\ ~ModerateRule(acc, fcr))
        /\ (acc = 8200 /\ fcr = 290) => cond = "High Demand"
        /\ (acc = 8000 /\ fcr = 350) => cond = "Moderate Demand"
        /\ (acc = 7000 /\ fcr = 500) => cond = "Low Demand"

C9_Witness == cpc = "returned" /\ acc = 8200 /\ fcr = 290 /\ cond = "High Demand"

\* the warehouses of the rows of a table that have a branch, in order
RECURSIVE KnownOf(_)
KnownOf(table) ==
    IF table = <<>> THEN <<>>
    ELSE IF Head(table).Warehouse \in KnownWarehouses
         THEN <<Head(table).Warehouse>> \o KnownOf(Tail(table))
         ELSE KnownOf(Tail(table))

\* C10: a location that is none of the known ones gets no recommendation:
\* the pass does not fail, it emits no row for that location, and the rows of
\* the known locations are all emitted.
C10_UnknownLocationSkipped ==
    /\ bpc # "error"
    /\ \A i \in DOMAIN recommendations :
          recommendations[i].Warehouse \in KnownWarehouses
    /\ bpc = "done" =>
          [i \in DOMAIN recommendations |-> recommendations[i].Warehouse]
            = KnownOf(summary_df)

\* the condition each known warehouse is expected to be in
ExpectedCondition ==
    [wh \in KnownWarehouses |->
        CASE wh = "Nickolson" -> "High Demand"
          [] wh = "Thompson" -> "Moderate Demand"
          [] wh = "Bakers" -> "Low Demand"]

BespokePair ==
    [wh \in KnownWarehouses |->
        CASE wh = "Nickolson" ->
               <<"Smoothly scale staffing and just-in-time replenishment",
                 "Lock favorable shipping rates; steady reorder policy">>
          [] wh = "Thompson" ->
               <<"Use flexible workforce; monitor promo impact closely",
                 "Coordinate with marketing on promo timing">>
          [] wh = "Bakers" ->
               <<"Tighten procurement; implement micro-promos",
                 "Audit SKU-level performance & reduce slow movers">>]

FallbackPair ==
    [wh \in KnownWarehouses |->
        CASE wh = "Nickolson" ->
               <<"Maintain steady workforce and monitor restock rate",
                 "Review inventory buffer policy">>
          [] wh = "Thompson" ->
               <<"Deploy temporary staff and adjust replenishment window",
                 "Strengthen logistics monitoring">>
          [] wh = "Bakers" ->
               <<"Stabilize order flow and reduce lead-time variance",
                 "Reassess supplier contracts">>]

\* C11: the row emitted for a known warehouse carries that warehouse's
\* bespoke pair when its condition is the expected one and its fallback pair
\* otherwise, whatever rows were processed before it.
C11_StaticLookup ==
    \A i \in DOMAIN recommendations :
        LET row == recommendations[i]
        IN  row.Warehouse \in KnownWarehouses =>
              /\ row.Warehouse = summary_df[i].Warehouse
              /\ <<row.PriorityAction, row.NextStep>> =
                    IF row.ForecastCondition = ExpectedCondition[row.Warehouse]
                    THEN BespokePair[row.Warehouse]
                    ELSE FallbackPair[row.Warehouse]

\* the same warehouse twice in one pass, once in its expected condition and
\* once not, with another warehouse in between
C11_Witness ==
    /\ bpc = "done"
    /\ Len(recommendations) = 3
    /\ recommendations[1].Warehouse = "Thompson"
    /\ recommendations[1].ForecastCondition = "Moderate Demand"
    /\ recommendations[2].Warehouse # "Thompson"
    /\ recommendations[3].Warehouse = "Thompson"
    /\ recommendations[3].ForecastCondition = "High Demand"
    /\ recommendations[3].PriorityAction = FallbackPair["Thompson"][1]

\* the result when the Moderate rule is tested before the High rule
ModerateFirst(a, f) ==
    IF ModerateRule(a, f) THEN "Moderate Demand"
    ELSE IF HighRule(a, f) THEN "High Demand"
    ELSE "Low Demand"

\* C14 (as claimed): some (accuracy, fcr) satisfies both the High and the
\* Moderate rule, and its result changes when the Moderate rule is tested
\* first.
C14_RulesOverlap ==
    cpc = "returned" =>
        \E a \in AccuracyValues, f \in FcrValues :
            /\ HighRule(a, f)
            /\ ModerateRule(a, f)
            /\ ModerateFirst(a, f) # determine_condition(a, f)

\* C14 (amended): no (accuracy, fcr) satisfies both rules, and the returned
\* condition is the one the Moderate-first order gives.
C14_RulesDisjoint ==
    cpc = "returned" =>
        /\ ~(HighRule(acc, fcr) /\ ModerateRule(acc, fcr))
        /\ cond = ModerateFirst(acc, fcr)

\* accuracy 82.0 with FCR 3.0: the High rule just fails, the Moderate one holds
C14_Witness ==
    cpc = "returned" /\ acc = 8200 /\ fcr = 300 /\ cond = "Moderate Demand"

-----------------------------------------------------------------------------
(* Properties of the loading and the filters (pages/performance.py) *)

InRange(r) == widgets.start <= r[c_date] /\ r[c_date] <= widgets.end
OfWarehouse(r) == widgets.warehouse = "All" \/ r[c_warehouse] = widgets.warehouse
OfModel(r) == widgets.model = "All" \/ r[c_model] = widgets.model

\* C13: the rows kept are those inside the closed date range that also match
\* the warehouse and the model selected; when none is left the summary is
\* empty and the render ends normally with the two 'nothing to show'
\* messages.
C13_EmptySelection ==
    (ppc = "done" /\ widgets.touched) =>
        /\ df_filtered.rows =
              {r \in df.rows : InRange(r)} \cap {r \in df.rows : OfWarehouse(r)}
                \cap {r \in df.rows : OfModel(r)}
        /\ df_filtered.rows = {} =>
              /\ perf_df = {}
              /\ perf_msgs = {MsgNoMetrics, MsgNoData}
        /\ df_filtered.rows # {} => MsgNoData \notin perf_msgs

\* every filter alone keeps a row, together they keep none
C13_Witness ==
    /\ ppc = "done"
    /\ widgets.touched
    /\ \A r \in df.rows : InRange(r)
    /\ \E r \in df.rows : OfWarehouse(r)
    /\ \E r \in df.rows : OfModel(r)
    /\ widgets.warehouse # "All" /\ widgets.model # "All"
    /\ df_filtered.rows = {}
    /\ perf_msgs = {MsgNoMetrics, MsgNoData}

\* a date range that holds no period of the file
C13_WitnessDates ==
    /\ ppc = "done"
    /\ widgets.touched
    /\ widgets.warehouse = "All" /\ widgets.model = "All"
    /\ widgets.start <= widgets.end
    /\ df.rows # {}
    /\ df_filtered.rows = {}

\* a row on the last day of the range is kept
C13_WitnessInclusive ==
    /\ ppc = "done"
    /\ widgets.touched
    /\ \E r \in df_filtered.rows : r[c_date] = widgets.end

-----------------------------------------------------------------------------
(* Properties of the dashboard's KPI (pages/dashboard.py) *)

ObservationsOf(wh) ==
    {r \in weekly_df.rows : wh = All \/ r[c_nearest_warehouse] = wh}

ObservedQuantity(r) == r[c_total_quantity][1]

\* C15: 'Total Weekly Sales' is the sum of the quantities of the observation
\* rows of the selected warehouse (of all of them for "All"), each counted
\* once whatever the number of forecast rows on its (warehouse, date) key.
C15_EachObservationOnce ==
    dpc = "kpi" =>
        total_sales = Total(ObservationsOf(selected_wh), ObservedQuantity)

\* the total is the claimed one whenever no key is shared by two merged rows
C15_OnceWithoutSharedKeys ==
    (dpc = "kpi" /\ \A i, j \in DOMAIN merged
                        : MergeKey(merged[i]) = MergeKey(merged[j]) => i = j) =>
        total_sales = Total(ObservationsOf(selected_wh), ObservedQuantity)

\* one warehouse selected, its observation shared by the forecasts of two models
C15_SharedKeySelected ==
    /\ dpc = "kpi"
    /\ selected_wh # All
    /\ Len(df_plot) = 2
    /\ Cardinality(ObservationsOf(selected_wh)) = 1
    /\ total_sales = 2 * Total(ObservationsOf(selected_wh), ObservedQuantity)

-----------------------------------------------------------------------------
(* Properties of the navigation (sales_volume_forecasting.py) *)

NavLabels == {nav_options[i] : i \in DOMAIN nav_options}

\* the page function a label stands for, by the text of the label
PageFunction(label) ==
    CASE label.text = " Home" -> "home_page"
      [] label.text = " Dashboard" -> "dashboard_page"
      [] label.text = " Performance" -> "performance_page"
      [] label.text = " Business Impact" -> "business_impact_page"
      [] label.text = " Contact" -> "contact_page"

Stored == current_page \in DOMAIN session_state

=============================================================================
